---------------------------- MODULE Spec2Model ----------------------------
(***************************************************************************)
(* A model of src/main.py: the query cleaner, the duration parser, the     *)
(* quality score, the search / details / rank pipeline of                  *)
(* YouTubeTutorialFinder, the roadmap lookup of RoadmapGenerator, and the  *)
(* session state that main() keeps across the runs of the page.            *)
(*                                                                         *)
(* Python strings are TLA+ strings; a character is a string of length 1.   *)
(* Python floats are modelled by exact rationals (see quality_score).      *)
(***************************************************************************)
EXTENDS Integers, Sequences, FiniteSets, TLC

VARIABLES
    \* ---- extract_topic_from_query called on its own
    q_parts,         \* how the query is written: phrase, words, whitespace, case
    user_query,      \* the raw query handed to extract_topic_from_query
    cleaned,         \* its return value (NotRun before the call)
    \* ---- parse_duration called on its own
    dur_tokens,      \* the pieces the duration string is written from
    dur_seconds,     \* parse_duration's return value (-1 before the call)
    \* ---- calculate_quality_score called on two records
    stats_a,         \* video_data of the first call
    stats_b,         \* video_data of the second call
    score_a,         \* the first call's return value (NoScore before the call)
    score_b,         \* the second call's return value (NoScore before the call)
    \* ---- generate_roadmap called on its own
    rm_parts,        \* how the topic is written: words and separator
    rm_level,        \* skill_level
    roadmap,         \* generate_roadmap's return value (<<>> before the call)
    \* ---- one call of find_best_tutorials
    pc,              \* "idle", "search_wait", "details_wait", "done", "raised"
    call,            \* the arguments: [user_query, language, top_n]
    topic,           \* local topic
    search_results,  \* local search_results
    video_details,   \* local video_details
    ranked,          \* the return value
    requests,        \* the HTTP requests issued so far, in order
    errors,          \* the st.error messages shown so far, in order
    search_status,   \* "none", "ok" or "failed": how the search request ended
    details_status,  \* "none", "ok" or "failed": how the details request ended
    details_items,   \* the items of the details response (<<>> before it)
    \* ---- st.session_state across the runs of main()
    chat_messages,   \* st.session_state.chat_messages
    tutorial_results,\* st.session_state.tutorial_results
    current_roadmap, \* st.session_state.current_roadmap
    chat_input_key,  \* st.session_state.chat_input_key
    ui_event         \* the run in progress: the button clicked, the text of its
                     \* input, and how the call it made ended

topicVars   == <<q_parts, user_query, cleaned>>
durVars     == <<dur_tokens, dur_seconds>>
scoreVars   == <<stats_a, stats_b, score_a, score_b>>
roadmapVars == <<rm_parts, rm_level, roadmap>>
findVars    == <<pc, call, topic, search_results, video_details, ranked, requests,
                 errors, search_status, details_status, details_items>>

uiVars      == <<chat_messages, tutorial_results, current_roadmap, chat_input_key,
                 ui_event>>

vars == <<topicVars, durVars, scoreVars, roadmapVars, findVars, uiVars>>

NotRun == "<not run>"

\* no score yet: no score of the program is negative
NoScore == [num |-> -1, den |-> 1]

(***************************************************************************)
(* Strings                                                                 *)
(***************************************************************************)
Char(s, i) == SubSeq(s, i, i)

\* \s of Python's re on str: the ASCII whitespace the inputs here use.
IsSpace(c) == c \in {" ", "\t", "\n"}

IsDigit(c) == c \in {"0", "1", "2", "3", "4", "5", "6", "7", "8", "9"}

UpperChars == "ABCDEFGHIJKLMNOPQRSTUVWXYZ"
LowerChars == "abcdefghijklmnopqrstuvwxyz"

\* the lower-case letter of each capital, and the capital of each lower-case letter
LowerOf == [c \in {Char(UpperChars, i) : i \in 1..Len(UpperChars)} |->
              Char(LowerChars, CHOOSE i \in 1..Len(UpperChars) : Char(UpperChars, i) = c)]
UpperOf == [c \in {Char(LowerChars, i) : i \in 1..Len(LowerChars)} |->
              Char(UpperChars, CHOOSE i \in 1..Len(LowerChars) : Char(LowerChars, i) = c)]

\* str.lower() on one character
LowerChar(c) == IF c \in DOMAIN LowerOf THEN LowerOf[c] ELSE c

RECURSIVE LowerFrom(_, _)
LowerFrom(s, i) ==
    IF i > Len(s) THEN "" ELSE LowerChar(Char(s, i)) \o LowerFrom(s, i + 1)

\* str.lower()
Lower(s) == LowerFrom(s, 1)

\* str.upper() on one character, and on a string: how an input is written in capitals
UpperChar(c) == IF c \in DOMAIN UpperOf THEN UpperOf[c] ELSE c

RECURSIVE UpperFrom(_, _)
UpperFrom(s, i) ==
    IF i > Len(s) THEN "" ELSE UpperChar(Char(s, i)) \o UpperFrom(s, i + 1)

Upper(s) == UpperFrom(s, 1)

\* sep.join(words)
RECURSIVE Join(_, _)
Join(words, sep) ==
    IF words = <<>> THEN ""
    ELSE IF Len(words) = 1 THEN words[1]
    ELSE words[1] \o sep \o Join(Tail(words), sep)

\* the sequences over S of length 0..n
SeqsUpTo(S, n) == UNION {[1..k -> S] : k \in 0..n}

\* s[pos:].startswith(lit), pos 1-based
StartsAt(s, pos, lit) ==
    /\ pos + Len(lit) - 1 <= Len(s)
    /\ SubSeq(s, pos, pos + Len(lit) - 1) = lit

\* `sub in s`
Contains(s, sub) == \E p \in 1..(Len(s) + 1) : StartsAt(s, p, sub)

\* the index after the run of whitespace that starts at pos
RECURSIVE SpaceEnd(_, _)
SpaceEnd(s, pos) ==
    IF pos <= Len(s) /\ IsSpace(Char(s, pos)) THEN SpaceEnd(s, pos + 1) ELSE pos

(***************************************************************************)
(* The filler patterns.  Every pattern of patterns_to_remove has the shape *)
(*     lit_1 .*? lit_2 .*? ... lit_n \s+                                   *)
(* and is written here as the sequence of its literals.                    *)
(***************************************************************************)
patterns_to_remove ==
    << <<"can you find", "for">>,
       <<"i want to learn">>,
       <<"teach me">>,
       <<"show me">>,
       <<"find", "tutorial", "for">>,
       <<"best", "tutorial", "for">>,
       <<"good", "video", "for">>,
       <<"help me with">>,
       <<"how to">>,
       <<"learn">>,
       <<"tutorial", "on">>,
       <<"course", "on">>,
       <<"video", "about">>,
       <<"please">>,
       <<"could you">>,
       <<"would you">> >>

\* The regex engine's match of  (.*?) lit_k (.*? lit_k+1 ...) \s+  at pos:
\* the index after the match, or 0 when there is none.  The lazy .*? tries
\* the shortest gap first and backtracks to longer ones; "." does not match
\* a newline; the trailing \s+ is greedy and must take at least one character.
RECURSIVE MatchRest(_, _, _, _), MatchGap(_, _, _, _, _)
MatchRest(s, pos, lits, k) ==
    IF k > Len(lits)
    THEN IF pos <= Len(s) /\ IsSpace(Char(s, pos)) THEN SpaceEnd(s, pos) ELSE 0
    ELSE MatchGap(s, pos, 0, lits, k)

MatchGap(s, pos, g, lits, k) ==
    IF pos + g + Len(lits[k]) - 1 > Len(s) THEN 0
    ELSE IF g > 0 /\ Char(s, pos + g - 1) = "\n" THEN 0
    ELSE LET e == IF StartsAt(s, pos + g, lits[k])
                  THEN MatchRest(s, pos + g + Len(lits[k]), lits, k + 1)
                  ELSE 0
         IN  IF e # 0 THEN e ELSE MatchGap(s, pos, g + 1, lits, k)

\* the pattern's match that starts exactly at pos (0: none)
MatchAt(s, pos, lits) ==
    IF StartsAt(s, pos, lits[1])
    THEN MatchRest(s, pos + Len(lits[1]), lits, 2)
    ELSE 0

\* re.search(pattern, s) is not None
Matches(s, lits) == \E p \in 1..Len(s) : MatchAt(s, p, lits) # 0

\* re.sub(pattern, "", s): every non-overlapping match, left to right, is removed
RECURSIVE SubFrom(_, _, _)
SubFrom(s, pos, lits) ==
    IF pos > Len(s) THEN ""
    ELSE LET e == MatchAt(s, pos, lits)
         IN  IF e # 0 THEN SubFrom(s, e, lits)
             ELSE Char(s, pos) \o SubFrom(s, pos + 1, lits)

ReSubPattern(s, lits) == SubFrom(s, 1, lits)

\* the for loop over patterns_to_remove, from pattern k on
RECURSIVE RemovePatterns(_, _)
RemovePatterns(s, k) ==
    IF k > Len(patterns_to_remove) THEN s
    ELSE RemovePatterns(ReSubPattern(s, patterns_to_remove[k]), k + 1)

\* re.sub(r'\s+', ' ', s)
RECURSIVE CollapseFrom(_, _)
CollapseFrom(s, pos) ==
    IF pos > Len(s) THEN ""
    ELSE IF IsSpace(Char(s, pos)) THEN " " \o CollapseFrom(s, SpaceEnd(s, pos))
    ELSE Char(s, pos) \o CollapseFrom(s, pos + 1)

\* a cleaner that forgets to collapse whitespace
CollapseSpacesForgotten(s) == s

CollapseSpaces(s) == CollapseFrom(s, 1)

\* str.strip()
RECURSIVE LStrip(_), RStrip(_)
LStrip(s) ==
    IF Len(s) > 0 /\ IsSpace(Char(s, 1)) THEN LStrip(SubSeq(s, 2, Len(s))) ELSE s
RStrip(s) ==
    IF Len(s) > 0 /\ IsSpace(Char(s, Len(s))) THEN RStrip(SubSeq(s, 1, Len(s) - 1)) ELSE s
Strip(s) == LStrip(RStrip(s))

\* ^(a|an|the|some|any)\s+ : the alternatives in the order the engine tries them
Determiners == <<"a", "an", "the", "some", "any">>

\* the index after the match of ^(a|an|the|some|any)\s+ (0: none)
RECURSIVE DeterminerEnd(_, _)
DeterminerEnd(s, k) ==
    IF k > Len(Determiners) THEN 0
    ELSE LET d == Determiners[k]
             p == Len(d) + 1
         IN  IF StartsAt(s, 1, d) /\ p <= Len(s) /\ IsSpace(Char(s, p))
             THEN SpaceEnd(s, p)
             ELSE DeterminerEnd(s, k + 1)

\* re.sub(r'^(a|an|the|some|any)\s+', '', s)
StripDeterminer(s) ==
    LET e == DeterminerEnd(s, 1)
    IN  IF e = 0 THEN s ELSE SubSeq(s, e, Len(s))

\* lines 45-50: what is left of the query before the fallback
CleanQuery(q) == StripDeterminer(Strip(CollapseSpaces(RemovePatterns(Lower(q), 1))))

\* a cleaner without the fallback to the raw query
extract_topic_without_fallback(q) == CleanQuery(q)

\* YouTubeTutorialFinder.extract_topic_from_query
extract_topic_from_query(q) ==
    LET cleaned_query == CleanQuery(q)
    IN  IF cleaned_query # "" THEN cleaned_query ELSE q


(***************************************************************************)
(* Numbers written as decimal strings                                      *)
(***************************************************************************)
DigitValue(c) ==
    CASE c = "0" -> 0 [] c = "1" -> 1 [] c = "2" -> 2 [] c = "3" -> 3
      [] c = "4" -> 4 [] c = "5" -> 5 [] c = "6" -> 6 [] c = "7" -> 7
      [] c = "8" -> 8 [] c = "9" -> 9

\* int(s) for a string of decimal digits
RECURSIVE IntOfDigits(_, _)
IntOfDigits(s, acc) ==
    IF s = "" THEN acc
    ELSE IntOfDigits(SubSeq(s, 2, Len(s)), acc * 10 + DigitValue(Char(s, 1)))

PyInt(s) == IntOfDigits(s, 0)

\* the index after the run of digits that starts at pos
RECURSIVE DigitsEnd(_, _)
DigitsEnd(s, pos) ==
    IF pos <= Len(s) /\ IsDigit(Char(s, pos)) THEN DigitsEnd(s, pos + 1) ELSE pos

\* dict.get(key, default)
DictGet(d, key, default) == IF key \in DOMAIN d THEN d[key] ELSE default

\* the empty dict
EmptyDict == <<>>

(***************************************************************************)
(* parse_duration                                                          *)
(***************************************************************************)
\* One optional group (?:(\d+)<unit>)? tried at pos: the group's text and the
\* index after it; the group is skipped (text "", same index) when it does not
\* match there.
DurationGroup(s, pos, unit) ==
    LET e == DigitsEnd(s, pos)
    IN  IF e > pos /\ e <= Len(s) /\ Char(s, e) = unit
        THEN [text |-> SubSeq(s, pos, e - 1), next |-> e + 1]
        ELSE [text |-> "", next |-> pos]

\* re.match(r'PT(?:(\d+)H)?(?:(\d+)M)?(?:(\d+)S)?', duration): anchored at the
\* start of the string only.
DurationMatch(duration) ==
    IF ~StartsAt(duration, 1, "PT") THEN [matched |-> FALSE]
    ELSE LET h  == DurationGroup(duration, 3, "H")
             m  == DurationGroup(duration, h.next, "M")
             sc == DurationGroup(duration, m.next, "S")
         IN  [matched |-> TRUE, g1 |-> h.text, g2 |-> m.text, g3 |-> sc.text,
              end |-> sc.next]

\* int(match.group(i) or 0)
GroupInt(text) == IF text = "" THEN 0 ELSE PyInt(text)

\* YouTubeTutorialFinder.parse_duration
parse_duration(duration) ==
    LET match == DurationMatch(duration)
    IN  IF ~match.matched THEN 0
        ELSE LET hours   == GroupInt(match.g1)
                 minutes == GroupInt(match.g2)
                 seconds == GroupInt(match.g3)
             IN  hours * 3600 + minutes * 60 + seconds

(***************************************************************************)
(* calculate_quality_score                                                 *)
(*                                                                         *)
(* The score is a float in the program.  Here it is the exact rational     *)
(*     quality_score = num / (10000 * den),   den = max(views, 1)          *)
(* kept as the pair [num, den], and compared by cross-multiplication.      *)
(***************************************************************************)
Max(a, b) == IF a >= b THEN a ELSE b

\* duration_score * 10, from the bands on duration_minutes = seconds / 60
DurationScore10(duration_seconds) ==
    IF 600 <= duration_seconds /\ duration_seconds <= 3600 THEN 10
    ELSE IF 300 <= duration_seconds /\ duration_seconds < 600 THEN 8
    ELSE IF 3600 < duration_seconds /\ duration_seconds <= 7200 THEN 9
    ELSE 6

\* a score whose views term has the wrong sign
ScoreOfViewsSubtracted(views, likes, comments, duration_seconds) ==
    LET den == Max(views, 1)
    IN  [num |-> 4000000 * (likes + comments)
                 + 30000 * DurationScore10(duration_seconds) * den
                 - 3 * views * den,
         den |-> den]

\* (views/1000)*0.3 + engagement_rate*10*0.4 + duration_score*100*0.3  with
\* engagement_rate = (likes + comments) / max(views, 1) * 100, times 10000 * den
ScoreOf(views, likes, comments, duration_seconds) ==
    LET den == Max(views, 1)
    IN  [num |-> 3 * views * den
                 + 4000000 * (likes + comments)
                 + 30000 * DurationScore10(duration_seconds) * den,
         den |-> den]

\* YouTubeTutorialFinder.calculate_quality_score
calculate_quality_score(video_data) ==
    LET stats        == DictGet(video_data, "statistics", EmptyDict)
        views        == PyInt(DictGet(stats, "viewCount", "0"))
        likes        == PyInt(DictGet(stats, "likeCount", "0"))
        comments     == PyInt(DictGet(stats, "commentCount", "0"))
        duration_str == DictGet(DictGet(video_data, "contentDetails", EmptyDict),
                                "duration", "PT0S")
    IN  ScoreOf(views, likes, comments, parse_duration(duration_str))

\* a <= b, a = b and a < b on scores
ScoreLE(a, b) == a.num * b.den <= b.num * a.den
ScoreEQ(a, b) == a.num * b.den = b.num * a.den
ScoreLT(a, b) == a.num * b.den < b.num * a.den

\* engagement_rate of a statistics record, as the pair [num, den] = num / den percent
EngagementOf(views, likes, comments) ==
    [num |-> (likes + comments) * 100, den |-> Max(views, 1)]

(***************************************************************************)
(* find_best_tutorials: the pure steps                                     *)
(***************************************************************************)
\* seq[:n]
PySliceTo(seq, n) ==
    IF n >= 0
    THEN SubSeq(seq, 1, IF n < Len(seq) THEN n ELSE Len(seq))
    ELSE SubSeq(seq, 1, Max(Len(seq) + n, 0))

\* search_videos line 57: the text searched for
EnhancedQuery(query) == query \o " tutorial complete course guide"

\* search_videos lines 59-69: the search request (the key left out)
SearchRequest(query, language, max_results) ==
    [kind |-> "search", q |-> EnhancedQuery(query), type |-> "video",
     videoDuration |-> "medium", videoDefinition |-> "high",
     relevanceLanguage |-> language, order |-> "relevance",
     maxResults |-> max_results]

\* find_best_tutorials line 157: video_ids
RECURSIVE VideoIdsOf(_)
VideoIdsOf(results) ==
    IF results = <<>> THEN <<>>
    ELSE <<Head(results).id.videoId>> \o VideoIdsOf(Tail(results))

\* get_video_details lines 85-89: the details request
DetailsRequest(video_ids) ==
    [kind |-> "details", part |-> "statistics,contentDetails,snippet", id |-> video_ids]

\* d[key] = value
DictPut(d, key, value) ==
    [k \in (DOMAIN d) \cup {key} |-> IF k = key THEN value ELSE d[k]]

\* a dict that is made anew for every item, and so keeps the last one only
RECURSIVE DetailsDictLastOnly(_, _)
DetailsDictLastOnly(items, acc) ==
    IF items = <<>> THEN acc
    ELSE DetailsDictLastOnly(Tail(items), DictPut(EmptyDict, Head(items).id, Head(items)))

\* get_video_details lines 96-100: the dict built from the response's items
RECURSIVE DetailsDict(_, _)
DetailsDict(items, acc) ==
    IF items = <<>> THEN acc
    ELSE DetailsDict(Tail(items), DictPut(acc, Head(items).id, Head(items)))

\* an error path that returns details of an earlier call
DetailsOnErrorStale ==
    [v \in {"vidA", "vidB", "vidC"} |->
        [id |-> v, statistics |-> [viewCount |-> "1"], contentDetails |-> EmptyDict]]

\* get_video_details line 103: what it returns when the request fails
DetailsOnError == EmptyDict

\* an error path that returns an item of an earlier search
SearchOnErrorStale ==
    << [id      |-> [kind |-> "youtube#video", videoId |-> "vidA"],
        snippet |-> [title |-> "t", channelTitle |-> "c", description |-> "d",
                     thumbnails |-> [high |-> [url |-> "u"]], publishedAt |-> "p"]] >>

\* search_videos line 77: what it returns when the request fails
SearchOnError == <<>>

\* find_best_tutorials lines 167-181
VideoInfo(item, details, quality_score, the_topic) ==
    [video_id        |-> item.id.videoId,
     title           |-> item.snippet.title,
     channel         |-> item.snippet.channelTitle,
     description     |-> PySliceTo(item.snippet.description, 200) \o "...",
     thumbnail       |-> item.snippet.thumbnails.high.url,
     published       |-> item.snippet.publishedAt,
     url             |-> "https://www.youtube.com/watch?v=" \o item.id.videoId,
     views           |-> PyInt(DictGet(details.statistics, "viewCount", "0")),
     likes           |-> PyInt(DictGet(details.statistics, "likeCount", "0")),
     comments        |-> PyInt(DictGet(details.statistics, "commentCount", "0")),
     duration        |-> DictGet(details.contentDetails, "duration", "PT0S"),
     quality_score   |-> quality_score,
     extracted_topic |-> the_topic]

\* find_best_tutorials line 163: the join condition
HasDetails(video_id, details_by_id) == video_id \in DOMAIN details_by_id

\* lines 175-178: details['statistics'] and details['contentDetails'] are
\* indexed, not read with .get, so an entry without one of them is a KeyError
IndexedKeys == {"statistics", "contentDetails"}
HasIndexedKeys(details) == IndexedKeys \subseteq DOMAIN details

\* the loop of lines 160-183 raises KeyError: some search item has a details
\* entry that lacks an indexed key
RaisesKeyError(results, details_by_id) ==
    \E i \in 1..Len(results) :
        /\ HasDetails(results[i].id.videoId, details_by_id)
        /\ ~HasIndexedKeys(details_by_id[results[i].id.videoId])

\* find_best_tutorials lines 160-183: the loop that joins search items and details
RECURSIVE JoinRanked(_, _, _)
JoinRanked(results, details_by_id, the_topic) ==
    IF results = <<>> THEN <<>>
    ELSE LET item     == Head(results)
             video_id == item.id.videoId
             rest     == JoinRanked(Tail(results), details_by_id, the_topic)
         IN  IF HasDetails(video_id, details_by_id)
             THEN LET details == details_by_id[video_id]
                  IN  <<VideoInfo(item, details, calculate_quality_score(details), the_topic)>>
                      \o rest
             ELSE rest

\* an insertion that puts x before the elements of equal score
RECURSIVE InsertPointBeforeEqual(_, _, _)
InsertPointBeforeEqual(sorted, x, i) ==
    IF i > Len(sorted) THEN i
    ELSE IF ScoreLE(sorted[i].quality_score, x.quality_score) THEN i
    ELSE InsertPointBeforeEqual(sorted, x, i + 1)

\* Where list.sort(key=quality_score, reverse=True) puts x in an already sorted
\* list: after every element whose score is >= x's (the sort is stable, and
\* reverse=True keeps the original order of equal keys).
RECURSIVE InsertPoint(_, _, _)
InsertPoint(sorted, x, i) ==
    IF i > Len(sorted) THEN i
    ELSE IF ScoreLT(sorted[i].quality_score, x.quality_score) THEN i
    ELSE InsertPoint(sorted, x, i + 1)

InsertSorted(sorted, x) ==
    LET i == InsertPoint(sorted, x, 1)
    IN  SubSeq(sorted, 1, i - 1) \o <<x>> \o SubSeq(sorted, i, Len(sorted))

\* ranked_videos.sort(key=lambda x: x['quality_score'], reverse=True)
RECURSIVE SortFrom(_, _, _)
SortFrom(list, i, acc) ==
    IF i > Len(list) THEN acc ELSE SortFrom(list, i + 1, InsertSorted(acc, list[i]))

SortByScoreDesc(list) == SortFrom(list, 1, <<>>)

\* a slice that keeps one item too many
TopNOffByOne(ranked_videos, top_n) == PySliceTo(ranked_videos, top_n + 1)

\* find_best_tutorials line 186
TopN(ranked_videos, top_n) == PySliceTo(ranked_videos, top_n)

\* find_best_tutorials lines 160-186: everything after the two requests
RankVideos(results, details_by_id, the_topic, top_n) ==
    TopN(SortByScoreDesc(JoinRanked(results, details_by_id, the_topic)), top_n)

\* find_best_tutorials line 154: `if not search_results: return []`
NoSearchResults(results) == results = <<>>

(***************************************************************************)
(* RoadmapGenerator.generate_roadmap                                       *)
(***************************************************************************)
\* roadmaps["python"]
PythonRoadmap ==
    [beginner |->
        << [step |-> 1, title |-> "Python Basics & Syntax", duration |-> "1-2 weeks",
             description |-> "Variables, data types, operators, and basic syntax"],
           [step |-> 2, title |-> "Control Structures", duration |-> "1 week",
             description |-> "If statements, loops (for, while), conditional logic"],
           [step |-> 3, title |-> "Functions & Modules", duration |-> "1-2 weeks",
             description |-> "Creating functions, parameters, return values, importing modules"],
           [step |-> 4, title |-> "Data Structures", duration |-> "2 weeks",
             description |-> "Lists, dictionaries, tuples, sets - manipulation and methods"],
           [step |-> 5, title |-> "File Handling & Error Handling", duration |-> "1 week",
             description |-> "Reading/writing files, exception handling with try/except"],
           [step |-> 6, title |-> "Object-Oriented Programming", duration |-> "2 weeks",
             description |-> "Classes, objects, inheritance, encapsulation"],
           [step |-> 7, title |-> "Libraries & APIs", duration |-> "1-2 weeks",
             description |-> "Working with external libraries, API calls, JSON handling"] >>,
     intermediate |->
        << [step |-> 1, title |-> "Advanced Data Structures", duration |-> "1 week",
             description |-> "Comprehensions, generators, decorators"],
           [step |-> 2, title |-> "Web Development", duration |-> "3-4 weeks",
             description |-> "Flask/Django basics, HTML templates, routing"],
           [step |-> 3, title |-> "Database Integration", duration |-> "2 weeks",
             description |-> "SQLite, PostgreSQL, ORM concepts"],
           [step |-> 4, title |-> "Testing & Debugging", duration |-> "1 week",
             description |-> "Unit testing, debugging techniques, logging"],
           [step |-> 5, title |-> "Data Analysis", duration |-> "2-3 weeks",
             description |-> "Pandas, NumPy, data manipulation and visualization"],
           [step |-> 6, title |-> "API Development", duration |-> "2 weeks",
             description |-> "RESTful APIs, FastAPI, authentication"],
           [step |-> 7, title |-> "Deployment", duration |-> "1 week",
             description |-> "Heroku, Docker basics, environment management"] >>]

\* roadmaps["javascript"]
JavascriptRoadmap ==
    [beginner |->
        << [step |-> 1, title |-> "JavaScript Fundamentals", duration |-> "1-2 weeks",
             description |-> "Variables, data types, operators, basic syntax"],
           [step |-> 2, title |-> "DOM Manipulation", duration |-> "1-2 weeks",
             description |-> "Selecting elements, event handling, dynamic content"],
           [step |-> 3, title |-> "Functions & Scope", duration |-> "1 week",
             description |-> "Function declarations, arrow functions, scope concepts"],
           [step |-> 4, title |-> "Arrays & Objects", duration |-> "1-2 weeks",
             description |-> "Array methods, object manipulation, JSON"],
           [step |-> 5, title |-> "Asynchronous JavaScript", duration |-> "2 weeks",
             description |-> "Promises, async/await, fetch API"],
           [step |-> 6, title |-> "ES6+ Features", duration |-> "1 week",
             description |-> "Let/const, template literals, destructuring, modules"],
           [step |-> 7, title |-> "Basic Projects", duration |-> "2 weeks",
             description |-> "Todo app, calculator, simple games"] >>,
     intermediate |->
        << [step |-> 1, title |-> "Modern JavaScript Frameworks", duration |-> "3-4 weeks",
             description |-> "React.js or Vue.js fundamentals"],
           [step |-> 2, title |-> "State Management", duration |-> "2 weeks",
             description |-> "Redux, Context API, component state"],
           [step |-> 3, title |-> "API Integration", duration |-> "1-2 weeks",
             description |-> "REST APIs, GraphQL, authentication"],
           [step |-> 4, title |-> "Build Tools", duration |-> "1 week",
             description |-> "Webpack, Vite, npm/yarn package management"],
           [step |-> 5, title |-> "Testing", duration |-> "1-2 weeks",
             description |-> "Jest, React Testing Library, unit testing"],
           [step |-> 6, title |-> "Performance Optimization", duration |-> "1 week",
             description |-> "Code splitting, lazy loading, memoization"],
           [step |-> 7, title |-> "Full-Stack Project", duration |-> "3-4 weeks",
             description |-> "Complete web application with backend integration"] >>]

\* roadmaps["machine learning"]
MachineLearningRoadmap ==
    [beginner |->
        << [step |-> 1, title |-> "Math Foundations", duration |-> "2-3 weeks",
             description |-> "Linear algebra, statistics, calculus basics"],
           [step |-> 2, title |-> "Python for ML", duration |-> "2 weeks",
             description |-> "NumPy, Pandas, Matplotlib fundamentals"],
           [step |-> 3, title |-> "Data Preprocessing", duration |-> "1-2 weeks",
             description |-> "Cleaning data, handling missing values, feature scaling"],
           [step |-> 4, title |-> "Supervised Learning", duration |-> "3 weeks",
             description |-> "Linear regression, logistic regression, decision trees"],
           [step |-> 5, title |-> "Model Evaluation", duration |-> "1 week",
             description |-> "Cross-validation, metrics, overfitting/underfitting"],
           [step |-> 6, title |-> "Unsupervised Learning", duration |-> "2 weeks",
             description |-> "Clustering, dimensionality reduction, PCA"],
           [step |-> 7, title |-> "First ML Project", duration |-> "2 weeks",
             description |-> "End-to-end project with real dataset"] >>,
     intermediate |->
        << [step |-> 1, title |-> "Advanced Algorithms", duration |-> "3 weeks",
             description |-> "Random Forest, SVM, ensemble methods"],
           [step |-> 2, title |-> "Deep Learning Basics", duration |-> "4 weeks",
             description |-> "Neural networks, TensorFlow/PyTorch introduction"],
           [step |-> 3, title |-> "Computer Vision", duration |-> "3 weeks",
             description |-> "CNN, image processing, OpenCV"],
           [step |-> 4, title |-> "Natural Language Processing", duration |-> "3 weeks",
             description |-> "Text preprocessing, sentiment analysis, word embeddings"],
           [step |-> 5, title |-> "MLOps Fundamentals", duration |-> "2 weeks",
             description |-> "Model deployment, monitoring, version control"],
           [step |-> 6, title |-> "Advanced Projects", duration |-> "4-5 weeks",
             description |-> "Portfolio projects with real-world applications"],
           [step |-> 7, title |-> "Specialization", duration |-> "Ongoing",
             description |-> "Choose focus area: CV, NLP, or other domain"] >>]


\* the roadmaps dict, its keys in insertion order (the order roadmaps.keys() yields)
roadmaps ==
    << [key |-> "python",           levels |-> PythonRoadmap],
       [key |-> "javascript",       levels |-> JavascriptRoadmap],
       [key |-> "machine learning", levels |-> MachineLearningRoadmap] >>

\* lines 262-268: the generic roadmap
GenericRoadmap(the_topic) ==
    << [step |-> 1, title |-> "Fundamentals", duration |-> "1-2 weeks",
        description |-> "Learn basic concepts of " \o the_topic],
       [step |-> 2, title |-> "Core Concepts", duration |-> "2-3 weeks",
        description |-> "Dive deeper into " \o the_topic \o " principles"],
       [step |-> 3, title |-> "Practical Application", duration |-> "2-3 weeks",
        description |-> "Build projects using " \o the_topic],
       [step |-> 4, title |-> "Advanced Topics", duration |-> "3-4 weeks",
        description |-> "Explore advanced " \o the_topic \o " concepts"],
       [step |-> 5, title |-> "Specialization", duration |-> "Ongoing",
        description |-> "Focus on specific areas within " \o the_topic] >>

\* a lookup that falls back to the "intermediate" list
RoadmapForLevelWrongDefault(levels, skill_level) ==
    DictGet(levels, skill_level, levels["intermediate"])

\* line 259: roadmaps[key].get(skill_level, roadmaps[key]["beginner"])
RoadmapForLevel(levels, skill_level) == DictGet(levels, skill_level, levels["beginner"])

\* lines 257-259: the for loop over roadmaps.keys(), from entry k on
RECURSIVE RoadmapLookup(_, _, _, _)
RoadmapLookup(the_topic, topic_lower, skill_level, k) ==
    IF k > Len(roadmaps) THEN GenericRoadmap(the_topic)
    ELSE IF Contains(topic_lower, roadmaps[k].key)
         THEN RoadmapForLevel(roadmaps[k].levels, skill_level)
         ELSE RoadmapLookup(the_topic, topic_lower, skill_level, k + 1)

\* RoadmapGenerator.generate_roadmap
generate_roadmap(the_topic, skill_level) == RoadmapLookup(the_topic, Lower(the_topic), skill_level, 1)

(***************************************************************************)
(* The states each part rests in while another part is exercised           *)
(***************************************************************************)
NoParts == [phrase |-> 0, inner |-> " ", sep |-> " ", upper |-> FALSE, words |-> <<>>]

TopicIdle   == q_parts = NoParts /\ user_query = "" /\ cleaned = NotRun
DurIdle     == dur_tokens = <<>> /\ dur_seconds = -1
ScoreIdle   == stats_a = EmptyDict /\ stats_b = EmptyDict
               /\ score_a = NoScore /\ score_b = NoScore
RoadmapIdle == rm_parts = [words |-> <<>>, sep |-> " "] /\ rm_level = "beginner"
               /\ roadmap = <<>>
NoCall      == [user_query |-> "", language |-> "", top_n |-> 0]
FindIdle    == /\ pc = "idle" /\ call = NoCall /\ topic = ""
               /\ search_results = <<>> /\ video_details = EmptyDict
               /\ ranked = <<>> /\ requests = <<>> /\ errors = <<>>
               /\ search_status = "none" /\ details_status = "none"
               /\ details_items = <<>>
NoOutcome   == [kind |-> "none", value |-> <<>>]
NoEvent     == [clicked |-> "none", typed |-> "", outcome |-> NoOutcome]
\* main lines 396-403: the session state of a new session
UiIdle      == /\ chat_messages = <<>> /\ tutorial_results = <<>>
               /\ current_roadmap = <<>> /\ chat_input_key = 0
               /\ ui_event = NoEvent

(***************************************************************************)
(* extract_topic_from_query on the queries a user may type                 *)
(***************************************************************************)
\* the longest topic, in words
MaxWords == 2

\* One plain instance of each pattern of patterns_to_remove, as its words:
\* FillerPhrases[k] is matched by patterns_to_remove[k].
FillerPhrases ==
    << <<"can", "you", "find", "videos", "for">>,
       <<"I", "want", "to", "learn">>,
       <<"Teach", "me">>,
       <<"show", "me">>,
       <<"find", "a", "tutorial", "for">>,
       <<"best", "tutorial", "for">>,
       <<"good", "video", "for">>,
       <<"help", "me", "with">>,
       <<"How", "to">>,
       <<"learn">>,
       <<"tutorial", "on">>,
       <<"course", "on">>,
       <<"video", "about">>,
       <<"Please">>,
       <<"could", "you">>,
       <<"would", "you">> >>

\* the words a topic is written from: plain words, a determiner, and words
\* that occur in the filler patterns
TopicWords == {"Python", "basics", "the", "learn", "on"}

\* the whitespace between the words of the filler phrase
InnerSeps == {" ", "  "}

\* the whitespace after the filler phrase and between the topic words
Seps == {" ", "\t\n"}

QueryParts ==
    [phrase : 0..Len(FillerPhrases), inner : InnerSeps, sep : Seps,
     upper : BOOLEAN, words : SeqsUpTo(TopicWords, MaxWords)]

\* the text of the filler phrase of a query ("" when it has none)
PhraseText(parts) ==
    IF parts.phrase = 0 THEN "" ELSE Join(FillerPhrases[parts.phrase], parts.inner)

\* the query as typed: the phrase, whitespace, the topic words
QueryText(parts) ==
    LET text == PhraseText(parts) \o parts.sep \o Join(parts.words, parts.sep)
    IN  IF parts.upper THEN Upper(text) ELSE text

TopicInit ==
    /\ q_parts \in QueryParts
    /\ user_query = QueryText(q_parts)
    /\ cleaned = NotRun
    /\ DurIdle /\ ScoreIdle /\ RoadmapIdle /\ FindIdle /\ UiIdle

\* the call extract_topic_from_query(user_query)
ExtractTopic ==
    /\ cleaned = NotRun
    /\ cleaned' = extract_topic_from_query(user_query)
    /\ UNCHANGED <<q_parts, user_query, durVars, scoreVars, roadmapVars, findVars, uiVars>>

TopicNext == ExtractTopic

SpecTopic == TopicInit /\ [][TopicNext]_vars

(***************************************************************************)
(* Claims about extract_topic_from_query (checked under SpecTopic)         *)
(***************************************************************************)
TopicCalled == cleaned # NotRun

\* C5: for every non-empty query the returned topic is non-empty, and when
\* stripping, collapsing and removing the determiner leave nothing, the raw
\* query itself (not lower-cased) is what is returned.
C5_TopicNeverEmpty ==
    (TopicCalled /\ user_query # "") =>
        /\ cleaned # ""
        /\ (CleanQuery(user_query) = "" => cleaned = user_query)

\* C5 witness: a query with capitals of which nothing is left after cleaning
\* has been answered by the query as typed.
C5_Witness ==
    /\ TopicCalled
    /\ q_parts.phrase # 0
    /\ CleanQuery(user_query) = ""
    /\ Lower(user_query) # user_query
    /\ cleaned = user_query

\* the topic words of a query, as typed and lower-cased
TopicTyped(parts) ==
    LET text == Join(parts.words, parts.sep)
    IN  IF parts.upper THEN Upper(text) ELSE text

LowerWords(words) == [i \in 1..Len(words) |-> Lower(words[i])]

\* the topic words match no filler pattern and do not start with a determiner
PlainTopic(parts) ==
    /\ parts.words # <<>>
    /\ \A k \in 1..Len(patterns_to_remove) :
           ~Matches(Lower(TopicTyped(parts)), patterns_to_remove[k])
    /\ \A d \in 1..Len(Determiners) : Lower(parts.words[1]) # Determiners[d]

\* the query is one filler phrase followed by plain topic words
PhraseThenTopic == TopicCalled /\ q_parts.phrase # 0 /\ PlainTopic(q_parts)

\* the topic words lower-cased, single spaces between them
ExpectedTopic == Join(LowerWords(q_parts.words), " ")

RECURSIVE SubFirstFrom(_, _, _)
SubFirstFrom(s, pos, lits) ==
    IF pos > Len(s) THEN ""
    ELSE LET e == MatchAt(s, pos, lits)
         IN  IF e # 0 THEN SubSeq(s, e, Len(s))
             ELSE Char(s, pos) \o SubFirstFrom(s, pos + 1, lits)

\* the patterns from k on, each applied once to the output of the one before
\* and each removing only its leftmost match
RECURSIVE RemoveFirstMatches(_, _)
RemoveFirstMatches(s, k) ==
    IF k > Len(patterns_to_remove) THEN s
    ELSE RemoveFirstMatches(SubFirstFrom(s, 1, patterns_to_remove[k]), k + 1)

\* the topic when every pattern removes only its leftmost match
TopicOfFirstMatches(q) ==
    LET cleaned_query == StripDeterminer(Strip(CollapseSpaces(RemoveFirstMatches(Lower(q), 1))))
    IN  IF cleaned_query # "" THEN cleaned_query ELSE q

\* the number of matches that re.sub(pattern, "", s) removes from pos on
RECURSIVE MatchCount(_, _, _)
MatchCount(s, pos, lits) ==
    IF pos > Len(s) THEN 0
    ELSE LET e == MatchAt(s, pos, lits)
         IN  IF e # 0 THEN 1 + MatchCount(s, e, lits)
             ELSE MatchCount(s, pos + 1, lits)

\* some pattern finds two matches or more in the string it is applied to
RECURSIVE RepeatedMatch(_, _)
RepeatedMatch(s, k) ==
    /\ k <= Len(patterns_to_remove)
    /\ \/ MatchCount(s, 1, patterns_to_remove[k]) >= 2
       \/ RepeatedMatch(ReSubPattern(s, patterns_to_remove[k]), k + 1)

\* C11 as stated: the patterns are applied once each in the listed order,
\* each to the output of the one before, and each removes only its first
\* (leftmost) match; later occurrences of the same pattern stay in place.
C11_FirstMatchOnly ==
    TopicCalled => cleaned = TopicOfFirstMatches(user_query)

\* what the code does where C11 fails: a query in which a pattern occurs
\* twice loses both occurrences ("learn learn Python" gives "python")
RepeatedPhraseRemoved ==
    /\ TopicCalled
    /\ user_query = "learn learn Python"
    /\ RepeatedMatch(Lower(user_query), 1)
    /\ cleaned = "python"
    /\ TopicOfFirstMatches(user_query) = "learn python"

\* where no pattern finds a second match, the first match is all that is
\* removed
SingleMatchesAgree ==
    (TopicCalled /\ ~RepeatedMatch(Lower(user_query), 1))
        => cleaned = TopicOfFirstMatches(user_query)

(***************************************************************************)
(* parse_duration on the strings the details response may carry            *)
(***************************************************************************)
\* the longest duration string, in tokens
MaxDurTokens == 4

\* the pieces a duration string is written from
DurTokens == {"PT", "1H", "5M", "30S", "45S", "2", "X"}

\* the duration string handed to parse_duration
DurationText == Join(dur_tokens, "")

DurInit ==
    /\ dur_tokens \in SeqsUpTo(DurTokens, MaxDurTokens)
    /\ dur_seconds = -1
    /\ TopicIdle /\ ScoreIdle /\ RoadmapIdle /\ FindIdle /\ UiIdle

\* the call parse_duration(duration)
ParseDuration ==
    /\ dur_seconds = -1
    /\ dur_seconds' = parse_duration(DurationText)
    /\ UNCHANGED <<dur_tokens, topicVars, scoreVars, roadmapVars, findVars, uiVars>>

DurNext == ParseDuration

SpecDur == DurInit /\ [][DurNext]_vars

(***************************************************************************)
(* Claims about parse_duration (checked under SpecDur)                     *)
(***************************************************************************)
\* t is digits followed by the unit letter
IsNumberUnit(t, unit) ==
    /\ Len(t) >= 2
    /\ Char(t, Len(t)) = unit
    /\ \A i \in 1..(Len(t) - 1) : IsDigit(Char(t, i))

ComponentOK(t, unit) == t = "" \/ IsNumberUnit(t, unit)

ComponentValue(t) == IF t = "" THEN 0 ELSE PyInt(SubSeq(t, 1, Len(t) - 1))

\* The ways to cut what follows "PT" in s into an hours, a minutes and a
\* seconds component, each absent or a number with its unit: the whole of s
\* has the form PT[#H][#M][#S] exactly when there is one.
DurationCuts(s) ==
    {c \in (2..Len(s)) \X (2..Len(s)) :
        /\ c[1] <= c[2]
        /\ ComponentOK(SubSeq(s, 3, c[1]), "H")
        /\ ComponentOK(SubSeq(s, c[1] + 1, c[2]), "M")
        /\ ComponentOK(SubSeq(s, c[2] + 1, Len(s)), "S")}

WellFormedDuration(s) == StartsAt(s, 1, "PT") /\ DurationCuts(s) # {}

\* hours*3600 + minutes*60 + seconds of a well-formed s
SecondsOf(s) ==
    LET c == CHOOSE c \in DurationCuts(s) : TRUE
    IN  ComponentValue(SubSeq(s, 3, c[1])) * 3600
        + ComponentValue(SubSeq(s, c[1] + 1, c[2])) * 60
        + ComponentValue(SubSeq(s, c[2] + 1, Len(s)))

DurationParsed == dur_seconds # -1

\* C7: a string of the form PT[#H][#M][#S] is mapped to hours*3600 +
\* minutes*60 + seconds with absent components counted as 0, and every
\* malformed string is mapped to 0.
C7_DurationOrZero ==
    DurationParsed =>
        IF WellFormedDuration(DurationText)
        THEN dur_seconds = SecondsOf(DurationText)
        ELSE dur_seconds = 0

\* The part of C7 the code keeps: well-formed strings get their seconds, and
\* strings that do not start with "PT" get 0.
WellFormedDurationParsed ==
    DurationParsed =>
        /\ WellFormedDuration(DurationText) => dur_seconds = SecondsOf(DurationText)
        /\ ~StartsAt(DurationText, 1, "PT") => dur_seconds = 0

\* the examples of the specification are among the strings parsed
DurationExamplesParsed ==
    \/ DurationParsed /\ DurationText = "PT1H5M30S" /\ dur_seconds = 3930
    \/ DurationParsed /\ DurationText = "PT45S" /\ dur_seconds = 45

(***************************************************************************)
(* calculate_quality_score on two statistics records                       *)
(***************************************************************************)
\* the largest viewCount, likeCount and commentCount of a record
MaxViews    == 3
MaxLikes    == 2
MaxComments == 1

\* one duration in each band of duration_score, and the band edges
ScoreDurations == {"PT4M59S", "PT5M", "PT10M", "PT1H1S"}

\* a details entry's statistics and contentDetails, as the API writes them:
\* the counts are decimal strings
VideoData(views, likes, comments, duration) ==
    [statistics     |-> [viewCount    |-> ToString(views),
                         likeCount    |-> ToString(likes),
                         commentCount |-> ToString(comments)],
     contentDetails |-> [duration |-> duration]]

ScoreInputs ==
    {VideoData(v, l, c, d) : v \in 0..MaxViews, l \in 0..MaxLikes,
                             c \in 0..MaxComments, d \in ScoreDurations}

\* two records with the same duration
ScoreInit ==
    /\ stats_a \in ScoreInputs
    /\ stats_b \in ScoreInputs
    /\ stats_a.contentDetails = stats_b.contentDetails
    /\ score_a = NoScore
    /\ score_b = NoScore
    /\ TopicIdle /\ DurIdle /\ RoadmapIdle /\ FindIdle /\ UiIdle

\* the calls calculate_quality_score(stats_a) and calculate_quality_score(stats_b)
ScoreBoth ==
    /\ score_a = NoScore
    /\ score_a' = calculate_quality_score(stats_a)
    /\ score_b' = calculate_quality_score(stats_b)
    /\ UNCHANGED <<stats_a, stats_b, topicVars, durVars, roadmapVars, findVars, uiVars>>

ScoreNext == ScoreBoth

SpecScore == ScoreInit /\ [][ScoreNext]_vars

(***************************************************************************)
(* Claims about calculate_quality_score (checked under SpecScore)          *)
(***************************************************************************)
Scored == score_a # NoScore

ViewsOf(data)    == PyInt(data.statistics.viewCount)
LikesOf(data)    == PyInt(data.statistics.likeCount)
CommentsOf(data) == PyInt(data.statistics.commentCount)

EngagementRate(data) == EngagementOf(ViewsOf(data), LikesOf(data), CommentsOf(data))

\* comparison of two rates num/den
RateLE(a, b) == a.num * b.den <= b.num * a.den
RateEQ(a, b) == a.num * b.den = b.num * a.den

\* the two records differ in viewCount at most
SameButViews ==
    /\ LikesOf(stats_a) = LikesOf(stats_b)
    /\ CommentsOf(stats_a) = CommentsOf(stats_b)
    /\ stats_a.contentDetails = stats_b.contentDetails

\* more engagement at fixed views and duration never lowers the score
MonotoneInEngagement ==
    (/\ ViewsOf(stats_a) = ViewsOf(stats_b)
     /\ stats_a.contentDetails = stats_b.contentDetails
     /\ RateLE(EngagementRate(stats_a), EngagementRate(stats_b)))
        => ScoreLE(score_a, score_b)

\* C4 as stated: of two records that differ only in viewCount the one with
\* more views scores at least as high, and at fixed views and duration a
\* higher engagement rate never gives a lower score.
C4_MonotoneInViewCount ==
    Scored =>
        /\ (SameButViews /\ ViewsOf(stats_a) <= ViewsOf(stats_b))
               => ScoreLE(score_a, score_b)
        /\ MonotoneInEngagement

\* C4 amended: the score is non-decreasing in views when the engagement rate
\* and the duration are held fixed, and non-decreasing in the engagement rate
\* when views and duration are held fixed.
C4_MonotoneAtFixedRate ==
    Scored =>
        /\ (/\ RateEQ(EngagementRate(stats_a), EngagementRate(stats_b))
            /\ stats_a.contentDetails = stats_b.contentDetails
            /\ ViewsOf(stats_a) <= ViewsOf(stats_b))
               => ScoreLE(score_a, score_b)
        /\ MonotoneInEngagement

\* C4 witness: two scored records with the same non-zero engagement rate and
\* duration, the second with more views and more likes, and a strictly higher
\* score.
C4_Witness ==
    /\ Scored
    /\ ViewsOf(stats_a) >= 1
    /\ ViewsOf(stats_a) < ViewsOf(stats_b)
    /\ LikesOf(stats_a) + CommentsOf(stats_a) > 0
    /\ RateEQ(EngagementRate(stats_a), EngagementRate(stats_b))
    /\ ScoreLT(score_a, score_b)

(***************************************************************************)
(* generate_roadmap on the topics and levels of the roadmap form           *)
(***************************************************************************)
\* the longest roadmap topic, in pieces
MaxTopicPieces == 2

\* the pieces a roadmap topic is written from
RoadmapPieces ==
    {"Python", "JavaScript", "Machine Learning", "machine", "learning",
     "Java", "script", "Basics", "Rust"}

\* what is typed between two pieces
PieceSeps == {" ", ""}

\* the skill levels of the form's select box, and one it does not offer
SkillLevels == {"beginner", "intermediate", "advanced", "expert"}

\* the topic handed to generate_roadmap
RoadmapTopic == Join(rm_parts.words, rm_parts.sep)

RoadmapInit ==
    /\ rm_parts \in [words : SeqsUpTo(RoadmapPieces, MaxTopicPieces) \ {<<>>},
                     sep : PieceSeps]
    /\ rm_level \in SkillLevels
    /\ roadmap = <<>>
    /\ TopicIdle /\ DurIdle /\ ScoreIdle /\ FindIdle /\ UiIdle

\* the call generate_roadmap(topic, skill_level)
GenerateRoadmap ==
    /\ roadmap = <<>>
    /\ roadmap' = generate_roadmap(RoadmapTopic, rm_level)
    /\ UNCHANGED <<rm_parts, rm_level, topicVars, durVars, scoreVars, findVars, uiVars>>

RoadmapNext == GenerateRoadmap

SpecRoadmap == RoadmapInit /\ [][RoadmapNext]_vars

(***************************************************************************)
(* Claims about generate_roadmap (checked under SpecRoadmap)               *)
(***************************************************************************)
RoadmapGenerated == roadmap # <<>>

\* the lower-cased topic contains roadmaps[k].key
KeyContained(k) == Contains(Lower(RoadmapTopic), roadmaps[k].key)

\* the predefined list of roadmaps[k] for the level, the "beginner" list when
\* the key has no list for the level
PredefinedList(k) ==
    IF rm_level \in DOMAIN roadmaps[k].levels
    THEN roadmaps[k].levels[rm_level]
    ELSE roadmaps[k].levels["beginner"]

\* without a contained key: 5 steps numbered 1 to 5 whose descriptions contain
\* the topic as typed
GenericShape ==
    /\ Len(roadmap) = 5
    /\ \A i \in 1..5 : roadmap[i].step = i /\ Contains(roadmap[i].description, RoadmapTopic)

NoKeyContained == \A k \in 1..Len(roadmaps) : ~KeyContained(k)

\* C8 as stated: if the lower-cased topic contains one of the keys, the result
\* is that key's predefined list for the level (its "beginner" list when the
\* level is not defined for the key); if it contains no key, the result is the
\* generic roadmap of 5 steps.
C8_AnyContainedKey ==
    RoadmapGenerated =>
        /\ \A k \in 1..Len(roadmaps) : KeyContained(k) => roadmap = PredefinedList(k)
        /\ NoKeyContained => GenericShape

\* C8 amended: the key that decides is the first contained one in the order
\* "python", "javascript", "machine learning".
C8_FirstContainedKey ==
    RoadmapGenerated =>
        /\ \A k \in 1..Len(roadmaps) :
               (KeyContained(k) /\ \A j \in 1..(k - 1) : ~KeyContained(j))
                   => roadmap = PredefinedList(k)
        /\ NoKeyContained => GenericShape

\* C8 witness: the example of the specification, a topic in mixed case that
\* contains "machine learning", answered by that key's intermediate list
C8_Witness ==
    /\ RoadmapGenerated
    /\ RoadmapTopic = "Machine Learning Basics"
    /\ rm_level = "intermediate"
    /\ roadmap = MachineLearningRoadmap.intermediate
    /\ roadmap[1].title = "Advanced Algorithms"

\* further cases of C8 that are reached: the fallback to "beginner", and the
\* generic roadmap
RoadmapFallbackReached ==
    /\ RoadmapGenerated /\ rm_level = "advanced" /\ KeyContained(2)
    /\ ~KeyContained(1) /\ roadmap = JavascriptRoadmap.beginner
RoadmapGenericReached ==
    RoadmapGenerated /\ NoKeyContained /\ GenericShape /\ RoadmapTopic = "Rust"

(***************************************************************************)
(* One call of find_best_tutorials, its two requests answered by the API   *)
(***************************************************************************)
\* the most items a search response carries here (the API's cap is max_results)
MaxItems == 3

\* the largest top_n asked for
MaxTopN == 3

\* search_videos line 54: the default max_results, the one find_best_tutorials uses
DefaultMaxResults == 20

\* the videos the API knows, in the order a details response lists them
VideoIdOrder == <<"vidA", "vidB", "vidC">>
VideoIds == {VideoIdOrder[i] : i \in 1..Len(VideoIdOrder)}

\* the query and the language of a call
CallInputs == {<<"I want to learn Python basics", "en">>, <<"Teach me ", "es">>}

\* What a details entry may say of a video: "popular" scores higher than
\* "plain", "bare" lacks likeCount, commentCount and the duration, and
\* "nostats" has no statistics object at all.  Two videos of the same profile
\* have equal scores.
Profiles ==
    [plain   |-> [statistics     |-> [viewCount |-> "2", likeCount |-> "1",
                                      commentCount |-> "1"],
                  contentDetails |-> [duration |-> "PT15M"]],
     popular |-> [statistics     |-> [viewCount |-> "3", likeCount |-> "9",
                                      commentCount |-> "0"],
                  contentDetails |-> [duration |-> "PT1H5M30S"]],
     bare    |-> [statistics     |-> [viewCount |-> "3"],
                  contentDetails |-> EmptyDict],
     nostats |-> [contentDetails |-> [duration |-> "PT15M"]]]

ProfileNames == DOMAIN Profiles
Absent == "absent"

\* one item of a search response
SearchItem(v) ==
    [id      |-> [kind |-> "youtube#video", videoId |-> v],
     snippet |-> [title        |-> "Title of " \o v,
                  channelTitle |-> "Channel of " \o v,
                  description  |-> "About " \o v,
                  thumbnails   |-> [high |-> [url |-> "https://i.ytimg.com/vi/" \o v
                                                       \o "/hqdefault.jpg"]],
                  publishedAt  |-> "2024-01-01T00:00:00Z"]]

\* one item of a details response
DetailsItem(v, profile) == [id |-> v] @@ Profiles[profile]

\* the search responses: up to MaxItems videos in any order
SearchResponses ==
    {[i \in 1..Len(ids) |-> SearchItem(ids[i])] : ids \in SeqsUpTo(VideoIds, MaxItems)}

\* the items of the details response that says `says[v]` of every video v
RECURSIVE DetailsItemsFrom(_, _)
DetailsItemsFrom(says, i) ==
    IF i > Len(VideoIdOrder) THEN <<>>
    ELSE LET v == VideoIdOrder[i]
         IN  (IF says[v] = Absent THEN <<>> ELSE <<DetailsItem(v, says[v])>>)
             \o DetailsItemsFrom(says, i + 1)

\* the details responses: an entry for any of the videos, at most one each
DetailsResponses ==
    {DetailsItemsFrom(says, 1) : says \in [VideoIds -> ProfileNames \cup {Absent}]}

Init ==
    /\ FindIdle
    /\ TopicIdle /\ DurIdle /\ ScoreIdle /\ RoadmapIdle /\ UiIdle

otherVars == <<topicVars, durVars, scoreVars, roadmapVars, uiVars>>

\* lines 151-152 up to requests.get of search_videos: the topic is extracted
\* and the search request is sent
CallFind(q, language, top_n) ==
    /\ pc = "idle"
    /\ call' = [user_query |-> q, language |-> language, top_n |-> top_n]
    /\ topic' = extract_topic_from_query(q)
    /\ requests' = Append(requests,
                          SearchRequest(topic', language, DefaultMaxResults))
    /\ pc' = "search_wait"
    /\ UNCHANGED <<search_results, video_details, ranked, errors, search_status,
                   details_status, details_items, otherVars>>

\* lines 154-158 and 79-92: what follows the return of search_videos with
\* `results`.  No results: return [].  Otherwise the ids are collected and
\* get_video_details sends the details request, unless it has no ids.
AfterSearch(results) ==
    /\ search_results' = results
    /\ IF NoSearchResults(results)
       THEN /\ ranked' = <<>>
            /\ pc' = "done"
            /\ UNCHANGED <<requests, video_details>>
       ELSE LET video_ids == VideoIdsOf(results)
            IN  IF video_ids = <<>>
                THEN /\ video_details' = EmptyDict
                     /\ ranked' = RankVideos(results, EmptyDict, topic, call.top_n)
                     /\ pc' = "done"
                     /\ UNCHANGED requests
                ELSE /\ requests' = Append(requests, DetailsRequest(video_ids))
                     /\ pc' = "details_wait"
                     /\ UNCHANGED <<ranked, video_details>>

\* lines 72-74: the search request succeeds with `items`
SearchResponds(items) ==
    /\ pc = "search_wait"
    /\ search_status' = "ok"
    /\ AfterSearch(items)
    /\ UNCHANGED <<call, topic, errors, details_status, details_items, otherVars>>

\* lines 75-77: the search request fails with a RequestException
SearchFails ==
    /\ pc = "search_wait"
    /\ search_status' = "failed"
    /\ errors' = Append(errors, "Error searching videos")
    /\ AfterSearch(SearchOnError)
    /\ UNCHANGED <<call, topic, details_status, details_items, otherVars>>

\* lines 158-186: what follows the return of get_video_details with `details`:
\* the list is joined, sorted and cut, unless the join raises KeyError
AfterDetails(details) ==
    /\ video_details' = details
    /\ IF RaisesKeyError(search_results, details)
       THEN /\ ranked' = <<>>
            /\ pc' = "raised"
       ELSE /\ ranked' = RankVideos(search_results, details, topic, call.top_n)
            /\ pc' = "done"

\* lines 92-100: the details request succeeds with `items`
DetailsResponds(items) ==
    /\ pc = "details_wait"
    /\ details_status' = "ok"
    /\ details_items' = items
    /\ AfterDetails(DetailsDict(items, EmptyDict))
    /\ UNCHANGED <<call, topic, search_results, requests, errors, search_status,
                   otherVars>>

\* lines 101-103: the details request fails with a RequestException
DetailsFails ==
    /\ pc = "details_wait"
    /\ details_status' = "failed"
    /\ errors' = Append(errors, "Error getting video details")
    /\ AfterDetails(DetailsOnError)
    /\ UNCHANGED <<call, topic, search_results, requests, search_status,
                   details_items, otherVars>>

\* the call is over; its locals are gone and the finder can be called again
EndCall ==
    /\ pc' = "idle"
    /\ call' = NoCall
    /\ topic' = ""
    /\ search_results' = <<>>
    /\ video_details' = EmptyDict
    /\ ranked' = <<>>
    /\ requests' = <<>>
    /\ errors' = <<>>
    /\ search_status' = "none"
    /\ details_status' = "none"
    /\ details_items' = <<>>
    /\ UNCHANGED otherVars

\* the call has returned `ranked`
Return == pc = "done" /\ EndCall

\* the KeyError of lines 175-178 leaves find_best_tutorials: nothing is
\* returned and nothing is reported with st.error
KeyErrorPropagates == pc = "raised" /\ EndCall

Next ==
    \/ \E input \in CallInputs, top_n \in 0..MaxTopN :
           CallFind(input[1], input[2], top_n)
    \/ \E items \in SearchResponses : SearchResponds(items)
    \/ SearchFails
    \/ \E items \in DetailsResponses : DetailsResponds(items)
    \/ DetailsFails
    \/ Return
    \/ KeyErrorPropagates

Spec == Init /\ [][Next]_vars

(***************************************************************************)
(* Claims about find_best_tutorials (checked under Spec)                   *)
(***************************************************************************)
Done == pc = "done"

\* the video ids of the search response and of the details response
SearchedIds == {search_results[i].id.videoId : i \in 1..Len(search_results)}
DetailIds   == {details_items[i].id : i \in 1..Len(details_items)}

RankedIds == [i \in 1..Len(ranked) |-> ranked[i].video_id]

\* how often v occurs in a sequence of ids
Count(ids, v) == Cardinality({i \in 1..Len(ids) : ids[i] = v})

\* C1: the result has at most top_n items, and their quality_score values are
\* in non-increasing order from first to last.
C1_AtMostTopNSorted ==
    Done =>
        /\ Len(ranked) <= call.top_n
        /\ \A i, j \in 1..Len(ranked) :
               i < j => ScoreLE(ranked[j].quality_score, ranked[i].quality_score)

\* C1 witness: three videos found, all with details, two asked for; the call
\* returned two of them, the last one of the search response first, with a
\* strictly higher score than the second.
C1_Witness ==
    /\ Done
    /\ call.top_n = 2
    /\ Len(search_results) = 3
    /\ SearchedIds \subseteq DetailIds
    /\ Len(ranked) = 2
    /\ ranked[1].video_id = search_results[3].id.videoId
    /\ ranked[1].video_id # search_results[1].id.videoId
    /\ ScoreLT(ranked[2].quality_score, ranked[1].quality_score)

\* C2: when the search request fails, or the search succeeds and the details
\* request fails, the call reports the error and returns the empty list.
C2_FailureGivesEmpty ==
    /\ search_status = "failed" =>
           /\ Done
           /\ ranked = <<>>
           /\ errors = <<"Error searching videos">>
    /\ details_status = "failed" =>
           /\ Done
           /\ search_status = "ok"
           /\ ranked = <<>>
           /\ errors = <<"Error getting video details">>

\* C2 witness: the search found two videos or more, the details request failed,
\* and the call returned the empty list with the error reported.
C2_Witness ==
    /\ Done
    /\ search_status = "ok"
    /\ Len(search_results) >= 2
    /\ details_status = "failed"
    /\ Len(errors) = 1
    /\ ranked = <<>>

\* C3: every returned item's video_id occurs in the search response and is
\* the id of an entry of the details response; a search item without a
\* details entry is left out, no error is reported for it, and every search
\* item that has an entry is still returned (when top_n does not cut the list).
C3_OnlyJoinedVideos ==
    Done =>
        /\ \A i \in 1..Len(ranked) :
               ranked[i].video_id \in SearchedIds \cap DetailIds
        /\ details_status = "ok" => errors = <<>>
        /\ (details_status = "ok" /\ call.top_n >= Len(search_results)) =>
               \A v \in VideoIds :
                   Count(RankedIds, v) =
                       IF v \in DetailIds
                       THEN Count(VideoIdsOf(search_results), v)
                       ELSE 0

\* C3 witness: a found video has no details entry, another has one; the call
\* returned the second without the first and without an error.
C3_Witness ==
    /\ Done
    /\ details_status = "ok"
    /\ SearchedIds \ DetailIds # {}
    /\ ranked # <<>>
    /\ Len(ranked) < Len(search_results)
    /\ call.top_n >= Len(search_results)
    /\ errors = <<>>

\* the details entry of video v
DetailsEntry(v) == details_items[CHOOSE i \in 1..Len(details_items) : details_items[i].id = v]

\* the search items that have a details entry, in the order of the search
\* response, each with its score
RECURSIVE CandidatesFrom(_)
CandidatesFrom(i) ==
    IF i > Len(search_results) THEN <<>>
    ELSE LET v == search_results[i].id.videoId
         IN  (IF v \in DetailIds
              THEN <<[video_id |-> v,
                      quality_score |-> calculate_quality_score(DetailsEntry(v))]>>
              ELSE <<>>)
             \o CandidatesFrom(i + 1)

Candidates == CandidatesFrom(1)

\* the ids of the items of list whose score equals sc, in the order of list
RECURSIVE TiedIds(_, _)
TiedIds(list, sc) ==
    IF list = <<>> THEN <<>>
    ELSE (IF ScoreEQ(Head(list).quality_score, sc) THEN <<Head(list).video_id>> ELSE <<>>)
         \o TiedIds(Tail(list), sc)

IsPrefix(a, b) == Len(a) <= Len(b) /\ SubSeq(b, 1, Len(a)) = a

\* C9: items of equal quality_score are returned in the order of the search
\* response, and the list is cut to top_n after sorting: of the items with one
\* score the returned ones are the earliest of the search response, and an
\* item is left out only when top_n items that score at least as high are
\* returned.
C9_StableRanking ==
    Done =>
        LET found == Candidates
        IN  /\ \A i \in 1..Len(ranked) :
                   IsPrefix(TiedIds(ranked, ranked[i].quality_score),
                            TiedIds(found, ranked[i].quality_score))
            /\ \A c \in 1..Len(found) :
                   TiedIds(ranked, found[c].quality_score)
                       # TiedIds(found, found[c].quality_score)
                   => /\ Len(ranked) = call.top_n
                      /\ \A i \in 1..Len(ranked) :
                             ScoreLE(found[c].quality_score, ranked[i].quality_score)

\* C9 witness: three different videos of equal score were found, vidC before
\* vidA before vidB; two were asked for and the call returned vidC, vidA.
C9_Witness ==
    /\ Done
    /\ call.top_n = 2
    /\ VideoIdsOf(search_results) = <<"vidC", "vidA", "vidB">>
    /\ RankedIds = <<"vidC", "vidA">>
    /\ LET found == Candidates
       IN  /\ Len(found) = 3
           /\ \A c \in 1..3 : ScoreEQ(found[c].quality_score, found[1].quality_score)

RequestKinds == [i \in 1..Len(requests) |-> requests[i].kind]

\* C10: at most one search and one details request per call, the search
\* first; the details request only after a search that succeeded with at
\* least one item; nothing is sent after a failure; and a search without
\* items (failed or empty) ends the call with the empty list at once.
C10_RequestOrder ==
    /\ RequestKinds \in {<<>>, <<"search">>, <<"search", "details">>}
    /\ Len(requests) = 2 =>
           /\ search_status = "ok"
           /\ search_results # <<>>
           /\ requests[2].id = VideoIdsOf(search_results)
    /\ (search_status = "failed" \/ (search_status = "ok" /\ search_results = <<>>)) =>
           /\ Done
           /\ ranked = <<>>
           /\ RequestKinds = <<"search">>
    /\ details_status = "failed" => Done /\ RequestKinds = <<"search", "details">>
    /\ pc = "search_wait" => RequestKinds = <<"search">>
    /\ pc = "details_wait" => RequestKinds = <<"search", "details">>

\* C10 witness: a call that ended after a successful search and a failed
\* details request, having sent exactly the two requests in order.
C10_Witness ==
    /\ Done
    /\ search_status = "ok"
    /\ details_status = "failed"
    /\ RequestKinds = <<"search", "details">>
    /\ requests[2].id = VideoIdsOf(search_results)

\* a further case of C10 that is reached: an empty search response ends the call
EmptySearchReached ==
    Done /\ search_status = "ok" /\ search_results = <<>> /\ RequestKinds = <<"search">>

\* the call is over: it returned, or an exception left it
Ended == pc \in {"done", "raised"}

\* a count of a details entry, 0 when the entry does not have it
CountOr0(details, field) ==
    LET stats == DictGet(details, "statistics", EmptyDict)
    IN  IF field \in DOMAIN stats THEN PyInt(stats[field]) ELSE 0

\* the seconds of a details entry's duration, 0 when the entry has none
SecondsOr0(details) ==
    LET content == DictGet(details, "contentDetails", EmptyDict)
    IN  IF "duration" \in DOMAIN content THEN parse_duration(content["duration"]) ELSE 0

CountFields == {"viewCount", "likeCount", "commentCount"}

\* the entry lacks viewCount, likeCount, commentCount or the duration
LacksAField(details) ==
    \/ ~(CountFields \subseteq DOMAIN DictGet(details, "statistics", EmptyDict))
    \/ "duration" \notin DOMAIN DictGet(details, "contentDetails", EmptyDict)

\* the entries of the details response that belong to a found video
JoinedEntries == {i \in 1..Len(details_items) : details_items[i].id \in SearchedIds}

\* the call returned a ranked item for the entry, with absent counts as 0 in
\* its fields and absent counts and duration as 0 in its score
RankedWithZeros(details) ==
    \E r \in 1..Len(ranked) :
        /\ ranked[r].video_id = details.id
        /\ ranked[r].views = CountOr0(details, "viewCount")
        /\ ranked[r].likes = CountOr0(details, "likeCount")
        /\ ranked[r].comments = CountOr0(details, "commentCount")
        /\ ranked[r].quality_score =
               ScoreOf(CountOr0(details, "viewCount"), CountOr0(details, "likeCount"),
                       CountOr0(details, "commentCount"), SecondsOr0(details))

\* every found video whose entry lacks a field got its item, without an error
\* (the item is in the list when top_n does not cut it)
LackingEntriesRanked ==
    \A i \in JoinedEntries :
        LacksAField(details_items[i]) =>
            /\ Done
            /\ errors = <<>>
            /\ call.top_n >= Len(search_results) => RankedWithZeros(details_items[i])

\* C12 as stated: a video whose details entry lacks any of viewCount,
\* likeCount, commentCount or the duration still gets a ranked item, with each
\* absent count as 0 and an absent duration as 0 seconds in the score and in
\* the views, likes and comments fields; it is not dropped and no error is
\* raised.
C12_MissingFieldsAsZero ==
    (Ended /\ details_status = "ok") => LackingEntriesRanked

\* what the code does where C12 fails: the entry of a found video has no
\* statistics object, and the call ends with a KeyError, without a result and
\* without a reported error
StatisticsKeyErrorRaised ==
    /\ pc = "raised"
    /\ details_status = "ok"
    /\ \E i \in JoinedEntries :
           /\ "statistics" \notin DOMAIN details_items[i]
           /\ calculate_quality_score(details_items[i]) = ScoreOf(0, 0, 0, 900)
    /\ ranked = <<>>
    /\ errors = <<>>

\* where every joined entry has its statistics and contentDetails objects,
\* fields absent inside them are counted as 0
FieldsAbsentInsideObjects ==
    (/\ Ended
     /\ details_status = "ok"
     /\ \A i \in JoinedEntries : HasIndexedKeys(details_items[i]))
        => LackingEntriesRanked

\* that case is reached: an entry with a viewCount only is ranked with 0 likes,
\* 0 comments and the score of a duration of 0 seconds
BareEntryRanked ==
    /\ Done
    /\ details_status = "ok"
    /\ call.top_n >= Len(search_results)
    /\ \E i \in JoinedEntries :
           /\ DOMAIN details_items[i].statistics = {"viewCount"}
           /\ details_items[i].contentDetails = EmptyDict
           /\ RankedWithZeros(details_items[i])
           /\ \E r \in 1..Len(ranked) :
                  /\ ranked[r].video_id = details_items[i].id
                  /\ ranked[r].likes = 0
                  /\ ranked[r].duration = "PT0S"

(***************************************************************************)
(* main(): the session state across the runs of the page.  Every click of  *)
(* a button is one run of main() with that button True and the others      *)
(* False.                                                                   *)
(***************************************************************************)
\* the largest chat_input_key the runs are followed to
MaxKey == 2

\* main lines 443-451: the fixed answers of the chat
responses ==
    << "That's a great question! I'm here to help you learn anything you want.",
       "I understand! Let me know if you need tutorials or learning resources on any topic.",
       "Interesting topic! Would you like me to find some tutorials or create a roadmap for this?",
       "I'm designed to help you learn effectively. What specific area would you like to explore?",
       "Feel free to ask me to find tutorials or create a personalized learning roadmap!",
       "Great! I can help you find the best learning resources. What's your current skill level?",
       "That's a wonderful learning goal! Would you like structured tutorials or a step-by-step roadmap?" >>

\* random.choice(responses) may return any of them
ResponseChoices == {responses[i] : i \in 1..Len(responses)}

\* what the chat input may hold when Send is clicked
ChatInputs == {"", " \t", " learn Python  "}

\* a user message that keeps the input as typed
UserMessageUntrimmed(chat_input) == [role |-> "user", content |-> chat_input]

\* main line 440
UserMessage(chat_input) == [role |-> "user", content |-> Strip(chat_input)]

\* main line 455
AssistantMessage(response) == [role |-> "assistant", content |-> response]

\* main lines 479-481 and 485: the options of the two select boxes
language_options == [English |-> "en", Spanish |-> "es", French |-> "fr", German |-> "de"]
LanguageCodes == {language_options[name] : name \in DOMAIN language_options}
num_results_options == {3, 5, 8}

\* what the tutorial search input may hold when Find Tutorials is clicked
TutorialQueries == {"", "learn Python"}

\* what the roadmap topic input may hold, and the options of the level box
RoadmapTopics == {"", "Python", "Rust"}
skill_level_options == {"beginner", "intermediate", "advanced"}

\* how a request of find_best_tutorials may end: with an error, or with items
FailedReply == [ok |-> FALSE, items |-> <<>>]
SearchReplies ==
    {FailedReply}
        \cup {[ok |-> TRUE, items |-> [i \in 1..Len(ids) |-> SearchItem(ids[i])]] :
                 ids \in {<<>>, <<"vidA">>, <<"vidA", "vidB">>}}
DetailsReplies ==
    {FailedReply}
        \cup {[ok |-> TRUE,
               items |-> DetailsItemsFrom([vidA |-> a, vidB |-> b, vidC |-> Absent], 1)] :
                 a \in {"plain", "nostats", Absent}, b \in {"popular", Absent}}

Returned(list) == [kind |-> "returned", value |-> list]
Raised == [kind |-> "raised", value |-> <<>>]

\* YouTubeTutorialFinder.find_best_tutorials, lines 149-186, as one call: its
\* return value, or Raised when the KeyError of lines 175-178 leaves it
find_best_tutorials(q, language, top_n, search, details) ==
    LET the_topic == extract_topic_from_query(q)
        results   == IF search.ok THEN search.items ELSE SearchOnError
    IN  IF NoSearchResults(results) THEN Returned(<<>>)
        ELSE LET details_by_id == IF details.ok THEN DetailsDict(details.items, EmptyDict)
                                  ELSE DetailsOnError
             IN  IF RaisesKeyError(results, details_by_id) THEN Raised
                 ELSE Returned(RankVideos(results, details_by_id, the_topic, top_n))

\* the ways the call of lines 490-494 may end, for every query
TutorialOutcomes ==
    [q \in TutorialQueries |->
        {find_best_tutorials(q, language, top_n, search, details) :
            language \in LanguageCodes, top_n \in num_results_options,
            search \in SearchReplies, details \in DetailsReplies}]

\* the ways generate_roadmap may be called from line 524, and what it returns
RoadmapOutcomes ==
    [the_topic \in RoadmapTopics |->
        [skill_level \in skill_level_options |-> generate_roadmap(the_topic, skill_level)]]

UiInit ==
    /\ UiIdle
    /\ TopicIdle /\ DurIdle /\ ScoreIdle /\ RoadmapIdle /\ FindIdle

nonUiVars == <<topicVars, durVars, scoreVars, roadmapVars, findVars>>

\* lines 436-459: a run with Send clicked.  With text in the input the two
\* messages are appended and the key goes up; st.rerun() ends the run.
ClickSend(chat_input, response) ==
    /\ ui_event' = [clicked |-> "send", typed |-> chat_input, outcome |-> NoOutcome]
    /\ IF Strip(chat_input) # ""
       THEN /\ chat_input_key < MaxKey
            /\ chat_messages' = Append(Append(chat_messages, UserMessage(chat_input)),
                                       AssistantMessage(response))
            /\ chat_input_key' = chat_input_key + 1
       ELSE UNCHANGED <<chat_messages, chat_input_key>>
    /\ UNCHANGED <<tutorial_results, current_roadmap, nonUiVars>>

\* lines 462-465: a run with Clear Chat clicked
ClickClearChat ==
    /\ chat_input_key < MaxKey
    /\ ui_event' = [clicked |-> "clear_chat", typed |-> "", outcome |-> NoOutcome]
    /\ chat_messages' = <<>>
    /\ chat_input_key' = chat_input_key + 1
    /\ UNCHANGED <<tutorial_results, current_roadmap, nonUiVars>>

\* lines 487-495: a run with Find Tutorials clicked.  The assignment of line
\* 495 is reached only when there is a query and the call returns.
ClickFindTutorials(tutorial_query, outcome) ==
    /\ ui_event' = [clicked |-> "find_tutorials", typed |-> tutorial_query,
                    outcome |-> IF tutorial_query # "" THEN outcome ELSE NoOutcome]
    /\ IF tutorial_query # "" /\ outcome.kind = "returned"
       THEN tutorial_results' = outcome.value
       ELSE UNCHANGED tutorial_results
    /\ UNCHANGED <<chat_messages, current_roadmap, chat_input_key, nonUiVars>>

\* lines 523-525: a run with Generate Roadmap clicked
ClickGenerateRoadmap(roadmap_topic, skill_level) ==
    /\ ui_event' = [clicked |-> "generate_roadmap", typed |-> roadmap_topic,
                    outcome |-> NoOutcome]
    /\ IF roadmap_topic # ""
       THEN current_roadmap' = RoadmapOutcomes[roadmap_topic][skill_level]
       ELSE UNCHANGED current_roadmap
    /\ UNCHANGED <<chat_messages, tutorial_results, chat_input_key, nonUiVars>>

UiNext ==
    \/ \E chat_input \in ChatInputs, response \in ResponseChoices :
           ClickSend(chat_input, response)
    \/ ClickClearChat
    \/ \E tutorial_query \in TutorialQueries :
           \E outcome \in TutorialOutcomes[tutorial_query] :
               ClickFindTutorials(tutorial_query, outcome)
    \/ \E roadmap_topic \in RoadmapTopics, skill_level \in skill_level_options :
           ClickGenerateRoadmap(roadmap_topic, skill_level)

SpecUI == UiInit /\ [][UiNext]_vars

(***************************************************************************)
(* Claims about the session state (checked under SpecUI)                   *)
(***************************************************************************)
\* the run that leads to the next state is a search with a query
SearchRun == ui_event'.clicked = "find_tutorials" /\ ui_event'.typed # ""

\* every run but a search with a query leaves tutorial_results alone, and a
\* search leaves chat_messages and current_roadmap alone
SearchFrame ==
    /\ ~SearchRun => tutorial_results' = tutorial_results
    /\ ui_event'.clicked = "find_tutorials" =>
           UNCHANGED <<chat_messages, current_roadmap>>

\* a search with a query replaces tutorial_results by what the search gives,
\* the empty list when it fails or finds nothing
SearchOverwrites == SearchRun => tutorial_results' = ui_event'.outcome.value

\* C13 as stated: tutorial_results is empty at first; every Find Tutorials
\* with a non-empty query overwrites it with that search's result, the empty
\* list when the search fails or finds nothing; chat send, clear chat and
\* roadmap generation leave it unchanged; and a search leaves chat_messages
\* and current_roadmap unchanged.
C13_LatestSearchResult ==
    /\ tutorial_results = <<>>
    /\ [][SearchOverwrites /\ SearchFrame]_vars

\* what the code does where C13 fails: results are shown, the next search
\* ends with the KeyError, and the results of the earlier search stay
StaleResultsKept ==
    /\ ui_event.clicked = "find_tutorials"
    /\ ui_event.typed # ""
    /\ ui_event.outcome = Raised
    /\ tutorial_results # <<>>

\* a search that returns overwrites tutorial_results with the list it
\* returned, and the frame of C13 holds for every run
ReturnedSearchOverwrites ==
    /\ tutorial_results = <<>>
    /\ [][/\ (SearchRun /\ ui_event'.outcome.kind = "returned")
                 => tutorial_results' = ui_event'.outcome.value
          /\ SearchFrame]_vars

\* that case is reached: results were shown and a later search that failed or
\* found nothing has replaced them by the empty list, with a chat and a
\* roadmap in the session
ResultsReplacedByEmpty ==
    /\ ui_event.clicked = "find_tutorials"
    /\ ui_event.outcome = Returned(<<>>)
    /\ tutorial_results = <<>>
    /\ chat_messages # <<>>
    /\ current_roadmap # <<>>

\* chat_messages has even length and alternates user, assistant, ...
ChatAlternates ==
    /\ Len(chat_messages) % 2 = 0
    /\ \A i \in 1..Len(chat_messages) :
           chat_messages[i].role = IF i % 2 = 1 THEN "user" ELSE "assistant"

\* the run that leads to the next state is a Send; its input is blank or not
SendRun == ui_event'.clicked = "send"
BlankInput == Strip(ui_event'.typed) = ""

\* what a run does to the chat
ChatStep ==
    /\ (SendRun /\ ~BlankInput) =>
           LET n == Len(chat_messages)
           IN  /\ Len(chat_messages') = n + 2
               /\ SubSeq(chat_messages', 1, n) = chat_messages
               /\ chat_messages'[n + 1] =
                      [role |-> "user", content |-> Strip(ui_event'.typed)]
               /\ chat_messages'[n + 2].role = "assistant"
               /\ chat_messages'[n + 2].content \in ResponseChoices
               /\ chat_input_key' = chat_input_key + 1
    /\ (SendRun /\ BlankInput) =>
           UNCHANGED <<chat_messages, chat_input_key, tutorial_results, current_roadmap>>
    /\ ui_event'.clicked = "clear_chat" =>
           chat_messages' = <<>> /\ chat_input_key' = chat_input_key + 1
    /\ chat_input_key' >= chat_input_key

\* C14: chat_messages always has even length and alternates user, assistant
\* from a user message on; a Send with non-blank input appends the trimmed
\* user message and one assistant message of the fixed list and adds 1 to
\* chat_input_key; a Send with blank input changes nothing; Clear Chat empties
\* chat_messages and adds 1 to chat_input_key; chat_input_key never decreases.
C14_ChatAlternates == []ChatAlternates /\ [][ChatStep]_vars

\* C14 witness: after a Clear Chat, a Send of " learn Python  " has put the
\* trimmed message and an answer of the list into the empty chat.
C14_Witness ==
    /\ ui_event.clicked = "send"
    /\ ui_event.typed = " learn Python  "
    /\ chat_input_key = 2
    /\ Len(chat_messages) = 2
    /\ chat_messages[1] = [role |-> "user", content |-> "learn Python"]
    /\ chat_messages[2] = [role |-> "assistant", content |-> responses[7]]

\* further cases of C14 that are reached: two exchanges in a row, a Send with
\* blank input, and a Clear Chat of a chat with messages
TwoExchangesReached ==
    /\ Len(chat_messages) = 4
    /\ chat_messages[3].role = "user"
    /\ chat_messages[2].content # chat_messages[4].content
BlankSendReached ==
    /\ ui_event.clicked = "send" /\ ui_event.typed = " \t"
    /\ Len(chat_messages) = 2 /\ chat_input_key = 1
ClearChatReached ==
    ui_event.clicked = "clear_chat" /\ chat_messages = <<>> /\ chat_input_key = 2

=============================================================================
